---- MODULE Spec2Model ----
(***************************************************************************)
(* Model of MapBuilder (rob7_760_2024/object_det_cloud.py): the node that  *)
(* receives labelled point batches, gates them on a transform lookup,      *)
(* reduces, transforms and merges them into self.transformed_points and    *)
(* republishes the accumulated cloud.                                      *)
(*                                                                         *)
(* Lengths are integers in units of 0.001 (one model unit = 0.001 of the   *)
(* program's distance unit); time stamps are integers in nanoseconds.      *)
(* A comparison "sqrt(s) < t" of the code is modelled as "s < t*t".        *)
(***************************************************************************)
EXTENDS Integers, Sequences, FiniteSets, TLC

VARIABLES transformed_points, appended_in, nbatch, msg, lookup, points, ret,
          published, passes

vars == <<transformed_points, appended_in, nbatch, msg, lookup, points, ret,
          published, passes>>

(***************************************************************************)
(* Bounds of the model.                                                    *)
(***************************************************************************)
MaxBatches == 2
MaxBatchLen == 2
MaxReduceLen == 3

(***************************************************************************)
(* Floating point values.  A finite coordinate k stands for k/1000; the    *)
(* three non-finite values are kept apart from every finite one.  HUGE is  *)
(* a finite double above the largest binary32 value (such as 1e39).        *)
(***************************************************************************)
UNIT_DEN == 1000
NaN == 2000000001
Inf == 2000000000
NegInf == 0 - 2000000000
HUGE == 1999999999

isnan(v) == v = NaN
isinf(v) == v = Inf \/ v = NegInf

Dims == {"x", "y", "z"}

is_valid_point(point) ==
    ~ \E dim \in Dims : isnan(point[dim]) \/ isinf(point[dim])

(***************************************************************************)
(* Squared Euclidean distance of two valid points, and the comparison      *)
(* dist < distance_threshold of reduce_points and is_point_too_close.      *)
(***************************************************************************)
sq(v) == v * v

\* the double a - b: two equal huge values cancel; a difference with one
\* huge or non-finite operand is huge, infinite or NaN, which the
\* comparison "dist < threshold" never accepts, and is modelled as FAR
FAR == 20000

diff(a, b) ==
    IF a = HUGE /\ b = HUGE THEN 0
    ELSE IF \E v \in {a, b} : isnan(v) \/ isinf(v) \/ v = HUGE THEN FAR
    ELSE a - b

dist2(point, f_point) ==
    sq(diff(point.x, f_point.x)) + sq(diff(point.y, f_point.y))
        + sq(diff(point.z, f_point.z))

\* variant: a point exactly at the threshold counts as too close
dist_le(point, f_point, distance_threshold) ==
    dist2(point, f_point) <= sq(distance_threshold)

dist_lt(point, f_point, distance_threshold) ==
    dist2(point, f_point) < sq(distance_threshold)

D_LOCAL == 2
D_GLOBAL == 10

(***************************************************************************)
(* reduce_points: greedy filter in arrival order.                          *)
(***************************************************************************)
\* variant: only the point kept last is compared
reduce_too_close_last(point, filtered_points) ==
    /\ filtered_points # <<>>
    /\ dist2(point, filtered_points[Len(filtered_points)]) < sq(2)

reduce_too_close(point, filtered_points) ==
    \E j \in 1..Len(filtered_points) :
        /\ is_valid_point(filtered_points[j])
        /\ dist_lt(point, filtered_points[j], D_LOCAL)

\* variant of the loop below: the first invalid point ends the loop
RECURSIVE reduce_loop_stop(_, _, _)
reduce_loop_stop(pts, i, filtered_points) ==
    IF i > Len(pts) THEN filtered_points
    ELSE IF ~ is_valid_point(pts[i]) THEN filtered_points
    ELSE IF reduce_too_close(pts[i], filtered_points)
         THEN reduce_loop_stop(pts, i + 1, filtered_points)
         ELSE reduce_loop_stop(pts, i + 1, Append(filtered_points, pts[i]))

RECURSIVE reduce_loop(_, _, _)
reduce_loop(pts, i, filtered_points) ==
    IF i > Len(pts) THEN filtered_points
    ELSE IF ~ is_valid_point(pts[i]) THEN reduce_loop(pts, i + 1, filtered_points)
    ELSE IF reduce_too_close(pts[i], filtered_points)
         THEN reduce_loop(pts, i + 1, filtered_points)
         ELSE reduce_loop(pts, i + 1, Append(filtered_points, pts[i]))

reduce_points(pts) == reduce_loop(pts, 1, <<>>)

(***************************************************************************)
(* extract_points_from_pointcloud2: read_points(..., skip_nans=True) drops *)
(* every point with a NaN field; infinite coordinates pass.                *)
(***************************************************************************)
has_nan(point) == \E dim \in Dims : isnan(point[dim])

extract_points_from_pointcloud2(m) ==
    SelectSeq(m.points, LAMBDA p : ~ has_nan(p))

(***************************************************************************)
(* transform_point: None (modelled as <<>>) for a transform with a         *)
(* non-finite component, else <<p>> with p the point rotated by the        *)
(* quaternion and then translated (do_transform_point).                    *)
(***************************************************************************)
nonfinite(v) == isnan(v) \/ isinf(v)

rotate(q, p) ==
    [x |-> (1 - 2 * (sq(q.y) + sq(q.z))) * p.x
           + 2 * (q.x * q.y - q.z * q.w) * p.y
           + 2 * (q.x * q.z + q.y * q.w) * p.z,
     y |-> 2 * (q.x * q.y + q.z * q.w) * p.x
           + (1 - 2 * (sq(q.x) + sq(q.z))) * p.y
           + 2 * (q.y * q.z - q.x * q.w) * p.z,
     z |-> 2 * (q.x * q.z - q.y * q.w) * p.x
           + 2 * (q.y * q.z + q.x * q.w) * p.y
           + (1 - 2 * (sq(q.x) + sq(q.y))) * p.z]

\* the double a + b: NaN and the infinities propagate, and a huge operand
\* absorbs a small one
fadd(a, b) ==
    IF isnan(a) \/ isnan(b) THEN NaN
    ELSE IF isinf(a) THEN a
    ELSE IF isinf(b) THEN b
    ELSE IF a = HUGE \/ b = HUGE THEN HUGE
    ELSE a + b

\* variant: the translation is added before the rotation
do_transform_point_translate_first(point, transform) ==
    LET t == transform.translation
    IN  rotate(transform.rotation,
               [x |-> fadd(point.x, t.x), y |-> fadd(point.y, t.y),
                z |-> fadd(point.z, t.z)])

do_transform_point(point, transform) ==
    LET r == rotate(transform.rotation, point)
        t == transform.translation
    IN  [x |-> fadd(r.x, t.x), y |-> fadd(r.y, t.y), z |-> fadd(r.z, t.z)]

\* variant: only the rotation is examined
transform_point_rotation_only(point, transform) ==
    IF \E val \in {transform.rotation.x, transform.rotation.y,
                    transform.rotation.z, transform.rotation.w} : nonfinite(val)
    THEN <<>>
    ELSE <<do_transform_point(point, transform)>>

transform_point(point, transform) ==
    LET translation == transform.translation
        rotation == transform.rotation
    IN  IF \E val \in {translation.x, translation.y, translation.z} : nonfinite(val)
        THEN <<>>
        ELSE IF \E val \in {rotation.x, rotation.y, rotation.z, rotation.w} :
                    nonfinite(val)
        THEN <<>>
        ELSE <<do_transform_point(point, transform)>>

(***************************************************************************)
(* is_point_too_close: the candidate against the live accumulated list.    *)
(***************************************************************************)
\* variant: the threshold of reduce_points is used
is_point_too_close_local(point, tp) ==
    IF ~ is_valid_point(point) THEN TRUE
    ELSE \E j \in 1..Len(tp) :
            /\ is_valid_point(tp[j])
            /\ dist2(point, tp[j]) < sq(2)

\* variant: only the entry appended last is compared
is_point_too_close_last(point, tp) ==
    IF ~ is_valid_point(point) THEN TRUE
    ELSE /\ tp # <<>>
         /\ is_valid_point(tp[Len(tp)])
         /\ dist2(point, tp[Len(tp)]) < sq(10)

\* variant: the candidate's own validity is not examined
is_point_too_close_unchecked(point, tp) ==
    \E j \in 1..Len(tp) :
        /\ is_valid_point(tp[j])
        /\ dist_lt(point, tp[j], D_GLOBAL)

is_point_too_close(point, tp) ==
    IF ~ is_valid_point(point) THEN TRUE
    ELSE \E j \in 1..Len(tp) :
            /\ is_valid_point(tp[j])
            /\ dist_lt(point, tp[j], D_GLOBAL)

(***************************************************************************)
(* struct.pack('fffI', x, y, z, label): the cast of a double to IEEE-754   *)
(* binary32 (round to nearest, ties to even) and the little-endian bytes   *)
(* of the three floats and of the unsigned 32-bit label.                   *)
(***************************************************************************)
abs(v) == IF v < 0 THEN 0 - v ELSE v

\* p/q scaled by powers of two into [1, 2), with the binary exponent e.
RECURSIVE f32_normalize(_, _, _)
f32_normalize(p, q, e) ==
    IF p >= 2 * q THEN f32_normalize(p, 2 * q, e + 1)
    ELSE IF p < q THEN f32_normalize(2 * p, q, e - 1)
    ELSE [p |-> p, q |-> q, e |-> e]

\* k further bits of the binary expansion of (m + r/q).
RECURSIVE f32_bits(_, _, _, _)
f32_bits(m, r, q, k) ==
    IF k = 0 THEN [m |-> m, r |-> r]
    ELSE IF 2 * r >= q THEN f32_bits(2 * m + 1, 2 * r - q, q, k - 1)
    ELSE f32_bits(2 * m, 2 * r, q, k - 1)

F32_MANT_BITS == 23
F32_BIAS == 127
F32_HIDDEN == 8388608

cast_to_float(v) ==
    IF isnan(v) THEN [sign |-> 0, exp |-> 255, mant |-> 4194304]
    ELSE IF isinf(v) THEN [sign |-> IF v < 0 THEN 1 ELSE 0, exp |-> 255, mant |-> 0]
    ELSE IF v = 0 THEN [sign |-> 0, exp |-> 0, mant |-> 0]
    ELSE LET n == f32_normalize(abs(v), UNIT_DEN, 0)
             b == f32_bits(1, n.p - n.q, n.q, F32_MANT_BITS)
             up == 2 * b.r > n.q \/ (2 * b.r = n.q /\ b.m % 2 = 1)
             m == IF up THEN b.m + 1 ELSE b.m
             carry == m = 2 * F32_HIDDEN
         IN  [sign |-> IF v < 0 THEN 1 ELSE 0,
              exp |-> n.e + F32_BIAS + (IF carry THEN 1 ELSE 0),
              mant |-> IF carry THEN 0 ELSE m - F32_HIDDEN]

\* the cast of every finite coordinate of the model, computed once
CoordMax == 40
Float32Table == [v \in (0 - CoordMax)..CoordMax |-> cast_to_float(v)]

float32(v) == IF nonfinite(v) THEN cast_to_float(v) ELSE Float32Table[v]

pack_f(v) ==
    LET f == float32(v)
    IN  << f.mant % 256,
           (f.mant \div 256) % 256,
           (f.mant \div 65536) + 128 * (f.exp % 2),
           (f.exp \div 2) + 128 * f.sign >>

pack_I(label) ==
    << label % 256,
       (label \div 256) % 256,
       (label \div 65536) % 256,
       (label \div 16777216) % 256 >>

\* variant: the label is packed first ('Ifff')
struct_pack_label_first(point) ==
    pack_I(point.label) \o pack_f(point.x) \o pack_f(point.y) \o pack_f(point.z)

struct_pack(point) ==
    pack_f(point.x) \o pack_f(point.y) \o pack_f(point.z) \o pack_I(point.label)

RECURSIVE join(_)
join(cloud_data) ==
    IF cloud_data = <<>> THEN <<>>
    ELSE Head(cloud_data) \o join(Tail(cloud_data))

POINT_STEP == 16

\* struct.pack raises OverflowError for a finite double outside the binary32
\* range ("float too large to pack with f format")
pack_overflows(point) == \E dim \in Dims : point[dim] = HUGE

(***************************************************************************)
(* publish_point_cloud: the messages handed to point_cloud_pub.publish,    *)
(* none (<<>>) when the accumulated list is empty.                         *)
(***************************************************************************)
\* variant: no early return for the empty list
publish_point_cloud_unguarded(tp) ==
    << [frame_id |-> "map",
        height |-> 1,
        width |-> Len(tp),
        point_step |-> POINT_STEP,
        row_step |-> POINT_STEP * Len(tp),
        data |-> join([i \in 1..Len(tp) |-> struct_pack(tp[i])])] >>

\* the serialisation loop of lines 164-166 raises; nothing catches it
publish_raises(tp) == \E i \in 1..Len(tp) : pack_overflows(tp[i])

publish_point_cloud(tp) ==
    IF tp = <<>> THEN <<>>
    ELSE << [frame_id |-> "map",
             height |-> 1,
             width |-> Len(tp),
             point_step |-> POINT_STEP,
             row_step |-> POINT_STEP * Len(tp),
             data |-> join([i \in 1..Len(tp) |-> struct_pack(tp[i])])] >>

(***************************************************************************)
(* pointcloud_callback.                                                    *)
(***************************************************************************)
MAX_TIME_DIFF_NS == 100000000

\* variant of the loop below: a survivor is inserted at the front
RECURSIVE merge_loop_prepend(_, _, _, _)
merge_loop_prepend(pts, i, transform, tp) ==
    IF i > Len(pts) THEN tp
    ELSE LET transformed_point == transform_point(pts[i], transform)
         IN  IF transformed_point = <<>> THEN merge_loop_prepend(pts, i + 1, transform, tp)
             ELSE IF is_point_too_close(transformed_point[1], tp)
             THEN merge_loop_prepend(pts, i + 1, transform, tp)
             ELSE merge_loop_prepend(pts, i + 1, transform,
                             <<[x |-> transformed_point[1].x,
                                y |-> transformed_point[1].y,
                                z |-> transformed_point[1].z,
                                label |-> pts[i].label]>> \o tp)

\* variant of the loop below: every candidate is compared with the list as
\* it was when the loop began (snapshot), not with the growing list
RECURSIVE merge_from_snapshot(_, _, _, _, _)
merge_from_snapshot(pts, i, transform, tp, snapshot) ==
    IF i > Len(pts) THEN tp
    ELSE LET transformed_point == transform_point(pts[i], transform)
         IN  IF transformed_point = <<>>
             THEN merge_from_snapshot(pts, i + 1, transform, tp, snapshot)
             ELSE IF is_point_too_close(transformed_point[1], snapshot)
             THEN merge_from_snapshot(pts, i + 1, transform, tp, snapshot)
             ELSE merge_from_snapshot(pts, i + 1, transform,
                             Append(tp, [x |-> transformed_point[1].x,
                                         y |-> transformed_point[1].y,
                                         z |-> transformed_point[1].z,
                                         label |-> pts[i].label]), snapshot)

merge_loop_snapshot(pts, i, transform, tp) ==
    merge_from_snapshot(pts, i, transform, tp, tp)

\* lines 71-80: transform each reduced point and append it unless too close
RECURSIVE merge_loop(_, _, _, _)
merge_loop(pts, i, transform, tp) ==
    IF i > Len(pts) THEN tp
    ELSE LET transformed_point == transform_point(pts[i], transform)
         IN  IF transformed_point = <<>> THEN merge_loop(pts, i + 1, transform, tp)
             ELSE IF is_point_too_close(transformed_point[1], tp)
             THEN merge_loop(pts, i + 1, transform, tp)
             ELSE merge_loop(pts, i + 1, transform,
                             Append(tp, [x |-> transformed_point[1].x,
                                         y |-> transformed_point[1].y,
                                         z |-> transformed_point[1].z,
                                         label |-> pts[i].label]))

\* variant of the gate below: a skew of exactly 0.1 s is rejected too
admission_ge(m, lk) ==
    IF ~ lk.ok THEN "lookup_failed"
    ELSE IF lk.transform.stamp - m.stamp >= 100000000 THEN "too_old"
    ELSE "admitted"

\* the gate of lines 40-62: "lookup_failed", "too_old" or "admitted"; the
\* difference of the two stamps is taken in nanoseconds, as line 50 reads it
admission(m, lk) ==
    IF ~ lk.ok THEN "lookup_failed"
    ELSE IF lk.transform.stamp - m.stamp > MAX_TIME_DIFF_NS THEN "too_old"
    ELSE "admitted"

\* variant: publish_point_cloud also runs on the early returns
pointcloud_callback_always_publish(tp, m, lk) ==
    LET gate == admission(m, lk)
    IN  IF gate # "admitted"
        THEN [tp |-> tp, points |-> <<>>, ret |-> gate,
              published |-> publish_point_cloud(tp)]
        ELSE LET pts == reduce_points(extract_points_from_pointcloud2(m))
                 merged == merge_loop(pts, 1, lk.transform, tp)
             IN  IF publish_raises(merged)
                 THEN [tp |-> merged, points |-> pts, ret |-> "raised",
                       published |-> <<>>]
                 ELSE [tp |-> merged, points |-> pts, ret |-> "processed",
                       published |-> publish_point_cloud(merged)]

pointcloud_callback(tp, m, lk) ==
    LET gate == admission(m, lk)
    IN  IF gate # "admitted"
        THEN [tp |-> tp, points |-> <<>>, ret |-> gate, published |-> <<>>]
        ELSE LET pts == reduce_points(extract_points_from_pointcloud2(m))
                 merged == merge_loop(pts, 1, lk.transform, tp)
             IN  IF publish_raises(merged)
                 THEN [tp |-> merged, points |-> pts, ret |-> "raised",
                       published |-> <<>>]
                 ELSE [tp |-> merged, points |-> pts, ret |-> "processed",
                       published |-> publish_point_cloud(merged)]

(***************************************************************************)
(* Inputs: the messages delivered on /object_detected/pointcloud and the   *)
(* outcomes of tf_buffer.lookup_transform.                                 *)
(***************************************************************************)
Pt(x, y, z, label) == [x |-> x, y |-> y, z |-> z, label |-> label]

LABEL_A == 1
LABEL_B == 66051

BatchPoints ==
    { Pt(0, 0, 0, LABEL_A),       \* the origin
      Pt(0, 0, 0 - 1, LABEL_B),   \* closer than d_local to the origin
      Pt(6, 0, 0 - 8, LABEL_A),   \* exactly d_global from the origin, nearer to the second
      Pt(Inf, 0, 0, LABEL_B),
      Pt(0, NaN, 0, LABEL_A) }

RECURSIVE SeqsUpTo(_, _)
SeqsUpTo(S, n) ==
    IF n = 0 THEN {<<>>}
    ELSE LET shorter == SeqsUpTo(S, n - 1)
         IN  shorter \cup {Append(q, e) : q \in {r \in shorter : Len(r) = n - 1}, e \in S}

BATCH_STAMP == 1000000000

Msgs == {[stamp |-> BATCH_STAMP, points |-> ps] : ps \in SeqsUpTo(BatchPoints, MaxBatchLen)}

Vec(x, y, z) == [x |-> x, y |-> y, z |-> z]
Quat(x, y, z, w) == [x |-> x, y |-> y, z |-> z, w |-> w]

IdentityPose == [translation |-> Vec(0, 0, 0), rotation |-> Quat(0, 0, 0, 1)]

\* a half turn about the x axis and then a shift along z: (x, y, z) goes
\* to (x, -y, 1 - z)
HalfTurnPose == [translation |-> Vec(0, 0, 1), rotation |-> Quat(1, 0, 0, 0)]

CorruptPose == [translation |-> Vec(NaN, 0, 0), rotation |-> Quat(0, 0, 0, 1)]

CorruptRotationPose == [translation |-> Vec(0, 0, 0), rotation |-> Quat(0, 0, Inf, 1)]

\* a finite translation beyond the binary32 range
HugePose == [translation |-> Vec(HUGE, 0, 0), rotation |-> Quat(0, 0, 0, 1)]

\* transform.header.stamp - msg.header.stamp, in nanoseconds
Skews == {0 - 200000000, 50000000, 100000000, 200000000}

LookupExceptions == {"LookupException", "ConnectivityException", "ExtrapolationException"}

Stamped(pose, stamp) ==
    [stamp |-> stamp, translation |-> pose.translation, rotation |-> pose.rotation]

Lookups(m) ==
    {[ok |-> FALSE, exc |-> e] : e \in LookupExceptions}
    \cup {[ok |-> TRUE, transform |-> Stamped(IdentityPose, m.stamp + skew)] :
            skew \in Skews}
    \cup {[ok |-> TRUE, transform |-> Stamped(HalfTurnPose, m.stamp + 100000000)],
          [ok |-> TRUE, transform |-> Stamped(CorruptPose, m.stamp)],
          [ok |-> TRUE, transform |-> Stamped(CorruptRotationPose, m.stamp)],
          [ok |-> TRUE, transform |-> Stamped(HugePose, m.stamp)]}

(***************************************************************************)
(* The node.  Init is the state after __init__; PointcloudCallback is one  *)
(* whole run of the subscription callback; Spin is rclpy.spin going back   *)
(* to wait for the next message, at which point the callback's locals are  *)
(* gone.  An exception that leaves the callback (ret = "raised") leaves    *)
(* rclpy.spin and main too: the node has ended and takes no further step.  *)
(*                                                                         *)
(* transformed_points is the only attribute that outlives a callback.      *)
(* msg, lookup, points, ret and published describe the callback that has   *)
(* just run: its message, the outcome of lookup_transform, the reduced     *)
(* points, where it returned, and what it handed to point_cloud_pub.       *)
(* appended_in records, for each accumulated entry, the number of the      *)
(* batch that appended it; nbatch counts the callbacks run so far.         *)
(* passes is used only by the specification of concurrent callbacks below. *)
(***************************************************************************)
NoMsg == [stamp |-> 0, points |-> <<>>]
NoLookup == [ok |-> FALSE, exc |-> "none"]
NoPasses == <<>>

RECURSIVE Repeat(_, _)
Repeat(v, n) == IF n = 0 THEN <<>> ELSE <<v>> \o Repeat(v, n - 1)

Init ==
    /\ transformed_points = <<>>
    /\ appended_in = <<>>
    /\ nbatch = 0
    /\ msg = NoMsg
    /\ lookup = NoLookup
    /\ points = <<>>
    /\ ret = "idle"
    /\ published = <<>>
    /\ passes = NoPasses

PointcloudCallback ==
    /\ ret = "idle"
    /\ nbatch < MaxBatches
    /\ \E m \in Msgs :
        \E lk \in Lookups(m) :
            LET r == pointcloud_callback(transformed_points, m, lk)
            IN  /\ transformed_points' = r.tp
                /\ appended_in' = appended_in
                       \o Repeat(nbatch + 1, Len(r.tp) - Len(transformed_points))
                /\ nbatch' = nbatch + 1
                /\ msg' = m
                /\ lookup' = lk
                /\ points' = r.points
                /\ ret' = r.ret
                /\ published' = r.published
                /\ UNCHANGED passes

Spin ==
    /\ ret \notin {"idle", "raised"}
    /\ msg' = NoMsg
    /\ lookup' = NoLookup
    /\ points' = <<>>
    /\ ret' = "idle"
    /\ published' = <<>>
    /\ UNCHANGED <<transformed_points, appended_in, nbatch, passes>>

Next == PointcloudCallback \/ Spin

Spec == Init /\ [][Next]_vars

TypeOK ==
    /\ Len(appended_in) = Len(transformed_points)
    /\ nbatch \in 0..MaxBatches
    /\ ret \in {"idle", "lookup_failed", "too_old", "processed", "raised"}
    /\ Len(published) <= 1

(***************************************************************************)
(* reduce_points on its own: every list of up to MaxReduceLen points drawn *)
(* from ReducePointSet is handed to reduce_points once.                    *)
(***************************************************************************)
ReducePointSet ==
    { Pt(0, 0, 0, 1),
      Pt(0, 0, 1, 1),            \* closer than d_local to the origin
      Pt(0, 2, 0, LABEL_B),      \* exactly d_local from the origin
      Pt(5000, 5000, 5000, 2),
      Pt(0, NegInf, 0, 2),
      Pt(NaN, 0, 0, 1) }

ReduceInputs == SeqsUpTo(ReducePointSet, MaxReduceLen)

InitReduce ==
    /\ transformed_points = <<>>
    /\ appended_in = <<>>
    /\ nbatch = 0
    /\ msg \in {[stamp |-> BATCH_STAMP, points |-> ps] : ps \in ReduceInputs}
    /\ lookup = NoLookup
    /\ points = <<>>
    /\ ret = "idle"
    /\ published = <<>>
    /\ passes = NoPasses

ReducePoints ==
    /\ ret = "idle"
    /\ points' = reduce_points(msg.points)
    /\ ret' = "reduced"
    /\ UNCHANGED <<transformed_points, appended_in, nbatch, msg, lookup, published,
                   passes>>

NextReduce == ReducePoints

SpecReduce == InitReduce /\ [][NextReduce]_vars

(***************************************************************************)
(* Two callbacks delivered concurrently (a reentrant callback group on a   *)
(* multi-threaded executor).  The code takes no lock, so the threads       *)
(* interleave between the statements of the loop of lines 71-80: the call  *)
(* of is_point_too_close (line 75) and the append (line 80) are separate   *)
(* steps.  passes.mutex tells whether the executor runs the callback under *)
(* mutual exclusion (the default callback group), in which case a whole    *)
(* pass is one critical section; passes.lock is the thread inside it.      *)
(* Each thread runs one pass over an admitted batch.                       *)
(***************************************************************************)
Threads == {1, 2}

Waiting == [pc |-> "waiting", pts |-> <<>>, i |-> 0, transform |-> IdentityPose]

\* the lookups that admit a batch and give a transform the merge can use
AdmittedPoses == {IdentityPose, HalfTurnPose}

InitInterleaved ==
    /\ transformed_points = <<>>
    /\ appended_in = <<>>
    /\ nbatch = 0
    /\ msg = NoMsg
    /\ lookup = NoLookup
    /\ points = <<>>
    /\ ret = "idle"
    /\ published = <<>>
    /\ passes \in {[mutex |-> b, lock |-> 0, thread |-> [t \in Threads |-> Waiting]] :
                       b \in BOOLEAN}

\* lines 30-68: the gate, extract and reduce touch only locals
Begin(t) ==
    /\ passes.thread[t].pc = "waiting"
    /\ passes.mutex => passes.lock = 0
    /\ \E m \in Msgs : \E pose \in AdmittedPoses :
          /\ admission(m, [ok |-> TRUE, transform |-> Stamped(pose, m.stamp)]) = "admitted"
          /\ passes' = [passes EXCEPT
                 !.lock = IF passes.mutex THEN t ELSE 0,
                 !.thread[t] = [pc |-> "check",
                                pts |-> reduce_points(extract_points_from_pointcloud2(m)),
                                i |-> 1,
                                transform |-> pose]]
    /\ nbatch' = nbatch + 1
    /\ UNCHANGED <<transformed_points, appended_in, msg, lookup, points, ret, published>>

\* lines 71-76: the loop head, transform_point and is_point_too_close
Check(t) ==
    LET th == passes.thread[t]
    IN  /\ th.pc = "check"
        /\ IF th.i > Len(th.pts)
           THEN passes' = [passes EXCEPT !.thread[t].pc = "publish"]
           ELSE LET transformed_point == transform_point(th.pts[th.i], th.transform)
                IN  IF transformed_point = <<>>
                       \/ is_point_too_close(transformed_point[1], transformed_points)
                    THEN passes' = [passes EXCEPT !.thread[t].i = th.i + 1]
                    ELSE passes' = [passes EXCEPT !.thread[t].pc = "append"]
        /\ UNCHANGED <<transformed_points, appended_in, nbatch, msg, lookup, points,
                       ret, published>>

\* lines 79-80: the candidate found far enough at the check is appended
AppendPoint(t) ==
    LET th == passes.thread[t]
        transformed_point == transform_point(th.pts[th.i], th.transform)
    IN  /\ th.pc = "append"
        /\ transformed_points' = Append(transformed_points,
                                        [x |-> transformed_point[1].x,
                                         y |-> transformed_point[1].y,
                                         z |-> transformed_point[1].z,
                                         label |-> th.pts[th.i].label])
        /\ appended_in' = Append(appended_in, t)
        /\ passes' = [passes EXCEPT !.thread[t].pc = "check", !.thread[t].i = th.i + 1]
        /\ UNCHANGED <<nbatch, msg, lookup, points, ret, published>>

\* line 83: publish_point_cloud, after which the callback returns
PublishPass(t) ==
    /\ passes.thread[t].pc = "publish"
    /\ published' = publish_point_cloud(transformed_points)
    /\ passes' = [passes EXCEPT !.lock = 0, !.thread[t].pc = "done"]
    /\ UNCHANGED <<transformed_points, appended_in, nbatch, msg, lookup, points, ret>>

NextInterleaved ==
    \E t \in Threads : Begin(t) \/ Check(t) \/ AppendPoint(t) \/ PublishPass(t)

SpecInterleaved == InitInterleaved /\ [][NextInterleaved]_vars

(***************************************************************************)
(* Properties.                                                             *)
(***************************************************************************)
far_apart(p, q, d) == dist2(p, q) >= sq(d)

\* the candidate that the callback just run derived from its k-th reduced
\* point; when transform_point gave None there is no candidate, which is
\* written as a point that lies nowhere
Nowhere == [x |-> NaN, y |-> NaN, z |-> NaN]

Candidate(k) ==
    LET transformed_point == transform_point(points[k], lookup.transform)
    IN  IF transformed_point = <<>> THEN Nowhere ELSE transformed_point[1]

SameCoords(p, q) == p.x = q.x /\ p.y = q.y /\ p.z = q.z

Admitted == ret = "processed"

\* C5 (reducer sparsity): in the output of reduce_points every two distinct
\* points are at least d_local apart and no point has a NaN or infinite
\* coordinate; an input without a valid point gives the empty output.
C5_ReducerSparsity ==
    ret = "reduced" =>
        /\ \A i \in 1..Len(points) : \A j \in 1..Len(points) :
              i # j => far_apart(points[i], points[j], D_LOCAL)
        /\ \A i \in 1..Len(points) :
              \A dim \in Dims : points[i][dim] \notin {NaN, Inf, NegInf}
        /\ (\A i \in 1..Len(msg.points) :
                \E dim \in Dims : msg.points[i][dim] \in {NaN, Inf, NegInf})
              => points = <<>>

\* an input with an invalid point, a near duplicate and two survivors
C5_Witness ==
    /\ ret = "reduced"
    /\ msg.points = <<Pt(0, 0, 0, 1), Pt(0, NegInf, 0, 2), Pt(0, 0, 1, 1)>>
    /\ points = <<Pt(0, 0, 0, 1)>>

\* C6 (greedy, first seen wins): the output of reduce_points is the input
\* restricted, in arrival order, to the index set K in which an index lies
\* exactly when its point is valid and at least d_local from every earlier
\* point of K; the scenario of three points reduces to its first and third.
GreedyKept(in, K) ==
    \A i \in 1..Len(in) :
        (i \in K) <=> (/\ is_valid_point(in[i])
                       /\ \A j \in K : j < i => far_apart(in[i], in[j], D_LOCAL))

RECURSIVE Restrict(_, _, _)
Restrict(in, K, i) ==
    IF i > Len(in) THEN <<>>
    ELSE (IF i \in K THEN <<in[i]>> ELSE <<>>) \o Restrict(in, K, i + 1)

ScenarioIn == <<Pt(0, 0, 0, 1), Pt(0, 0, 1, 1), Pt(5000, 5000, 5000, 2)>>
ScenarioOut == <<Pt(0, 0, 0, 1), Pt(5000, 5000, 5000, 2)>>

C6_GreedyFirstSeenWins ==
    ret = "reduced" =>
        /\ \E K \in SUBSET (1..Len(msg.points)) :
              /\ GreedyKept(msg.points, K)
              /\ points = Restrict(msg.points, K, 1)
        /\ (msg.points = ScenarioIn => points = ScenarioOut)

C6_Witness ==
    /\ ret = "reduced"
    /\ msg.points = ScenarioIn
    /\ points = ScenarioOut

\* C1 (merge sparsity): two accumulated points appended during different
\* batches are at least d_global apart.
C1_MergeSparsity ==
    \A i \in 1..Len(transformed_points) : \A j \in 1..Len(transformed_points) :
        appended_in[i] # appended_in[j]
            => far_apart(transformed_points[i], transformed_points[j], D_GLOBAL)

\* the second batch added a point, and one of its candidates was nearer than
\* d_global to a point of the first batch
C1_Witness ==
    /\ Admitted
    /\ \E i \in 1..Len(appended_in) : \E j \in 1..Len(appended_in) :
          appended_in[i] < appended_in[j]
    /\ \E k \in 1..Len(points) : \E i \in 1..Len(transformed_points) :
          /\ appended_in[i] < nbatch
          /\ ~ far_apart(Candidate(k), transformed_points[i], D_GLOBAL)

\* C2 (lookup failure): a callback whose lookup raises one of the three
\* caught exceptions returns at the except clause, leaves the accumulated
\* list as it was and publishes nothing, whatever the batch holds and
\* whatever happened before.
C2_LookupFailureDropsBatch ==
    [][(ret = "idle" /\ ret' # "idle" /\ ~ lookup'.ok)
          => /\ lookup'.exc \in LookupExceptions
             /\ ret' = "lookup_failed"
             /\ transformed_points' = transformed_points
             /\ published' = <<>>]_vars

\* a failed lookup for a non-empty batch after an earlier batch was merged
C2_Witness ==
    /\ ret = "lookup_failed"
    /\ ~ lookup.ok
    /\ transformed_points # <<>>
    /\ \E i \in 1..Len(msg.points) : is_valid_point(msg.points[i])

\* C3 (gate): with a successful lookup and skew = transform stamp - batch
\* stamp, the callback returns at the gate exactly when skew > 0.1 s, and
\* then the accumulated list is unchanged and nothing is published; skews of
\* 0.05 s and of exactly 0.1 s are admitted, 0.2 s is rejected.
Skew(m, lk) == lk.transform.stamp - m.stamp

C4_StaleTransformRejected ==
    (ret # "idle" /\ lookup.ok /\ msg.stamp - lookup.transform.stamp > 100000000)
        => /\ ret = "too_old"
           /\ \A i \in 1..Len(appended_in) : appended_in[i] # nbatch

\* C7 (idempotent re-merge): reducing, transforming and merging one candidate
\* whose coordinates in the target frame are those of an accumulated point,
\* with any label, leaves the accumulated list as it is; and a batch all of
\* whose candidates fall on points of earlier batches appends nothing.
IdentityLookup == [ok |-> TRUE, transform |-> Stamped(IdentityPose, BATCH_STAMP)]

Offer(tp, i, label) ==
    merge_loop(reduce_points(<<Pt(tp[i].x, tp[i].y, tp[i].z, label)>>), 1,
               IdentityLookup.transform, tp)

C7_IdempotentReMerge ==
    /\ \A i \in 1..Len(transformed_points) : \A label \in {LABEL_A, LABEL_B, 2} :
          Offer(transformed_points, i, label) = transformed_points
    /\ (Admitted /\ points # <<>>
          /\ \A k \in 1..Len(points) : \E i \in 1..Len(transformed_points) :
                appended_in[i] < nbatch /\ SameCoords(Candidate(k), transformed_points[i]))
          => \A i \in 1..Len(appended_in) : appended_in[i] < nbatch

\* the batch just merged offered the exact place of a point that is not the
\* last of the list, and nothing was appended
C7_Witness ==
    /\ Admitted
    /\ Len(transformed_points) >= 2
    /\ \A i \in 1..Len(appended_in) : appended_in[i] < nbatch
    /\ \E k \in 1..Len(points) : SameCoords(Candidate(k), transformed_points[1])

\* C8 (append-only): the accumulated list starts empty and every step keeps
\* its previous content as a prefix of the new content.
IsPrefix(s, t) == Len(s) <= Len(t) /\ SubSeq(t, 1, Len(s)) = s

C8_AppendOnly ==
    /\ transformed_points = <<>>
    /\ [][IsPrefix(transformed_points, transformed_points')]_vars

\* a later candidate with another label fell nearer than d_global to a
\* recorded point, which kept its label, while the same batch appended a point
C8_Witness ==
    /\ Admitted
    /\ \E i \in 1..Len(appended_in) : appended_in[i] = nbatch
    /\ \E k \in 1..Len(points) : \E i \in 1..Len(transformed_points) :
          /\ appended_in[i] < nbatch
          /\ ~ far_apart(Candidate(k), transformed_points[i], D_GLOBAL)
          /\ points[k].label # transformed_points[i].label

\* C9 (serialization round trip): a published buffer has 16 bytes per
\* accumulated point, in insertion order; the bytes at offsets 0, 4 and 8 of
\* a record decode as little-endian binary32 to the float32 value of x, y
\* and z, and the bytes at offset 12 decode to the label.
unpack_f(b) ==
    [sign |-> b[4] \div 128,
     exp |-> (b[4] % 128) * 2 + b[3] \div 128,
     mant |-> (b[3] % 128) * 65536 + b[2] * 256 + b[1]]

unpack_I(b) == b[1] + 256 * b[2] + 65536 * b[3] + 16777216 * b[4]

Field(data, i, offset) ==
    SubSeq(data, 16 * (i - 1) + offset + 1, 16 * (i - 1) + offset + 4)

C10_NoEmptyPublish ==
    /\ published # <<>> => /\ published[1].width >= 1
                           /\ published[1].data # <<>>
                           /\ transformed_points # <<>>
    /\ (ret # "idle" /\ transformed_points = <<>>) => published = <<>>

\* an admitted batch with a valid point that left the empty list empty
C10_Witness ==
    /\ Admitted
    /\ points # <<>>
    /\ transformed_points = <<>>
    /\ published = <<>>

\* C11 (no error is fatal): whatever the batch and the lookup outcome, the
\* callback ends in a normal return, at the gate or after the merge, having
\* published once or not at all; it never ends in an uncaught exception.
C11_NoFatalError ==
    ret # "idle" => /\ ret \in {"lookup_failed", "too_old", "processed"}
                    /\ Len(published) <= 1

\* C12 (invalid geometry, point by point): a batch that passes the gate
\* leaves the accumulated list exactly as the same batch without its points
\* that have a NaN or infinite coordinate would, from the same list and with
\* the same transform: an invalid point is dropped alone.
WithoutInvalid(m) == [m EXCEPT !.points = SelectSeq(m.points, is_valid_point)]

PassedGate(r) == r \in {"processed", "raised"}

C12_InvalidPointsDroppedAlone ==
    [][(ret = "idle" /\ PassedGate(ret'))
          => transformed_points' =
                pointcloud_callback(transformed_points, WithoutInvalid(msg'), lookup').tp]_vars

\* an invalid point arrived before a valid one, and the batch still appended
C12_Witness ==
    /\ Admitted
    /\ \E i \in 1..Len(msg.points) : \E j \in 1..Len(msg.points) :
          /\ i < j
          /\ isinf(msg.points[i].x)
          /\ is_valid_point(msg.points[j])
    /\ \E i \in 1..Len(appended_in) : appended_in[i] = nbatch

\* C13 (corrupt transform): when the transform of a batch that passed the
\* gate has a NaN or infinite translation or rotation component,
\* transform_point gives None for every point of the batch and the
\* accumulated list is left as it was.
CorruptTransform(t) ==
    \E val \in {t.translation.x, t.translation.y, t.translation.z,
                 t.rotation.x, t.rotation.y, t.rotation.z, t.rotation.w} :
        val \in {NaN, Inf, NegInf}

C13_CorruptTransformAppendsNothing ==
    [][(ret = "idle" /\ PassedGate(ret') /\ CorruptTransform(lookup'.transform))
          => /\ \A k \in 1..Len(points') :
                    transform_point(points'[k], lookup'.transform) = <<>>
             /\ \A k \in 1..Len(msg'.points) :
                    transform_point(msg'.points[k], lookup'.transform) = <<>>
             /\ transformed_points' = transformed_points]_vars

\* a batch with a valid point met a corrupt transform after an earlier batch
\* had been merged
C13_Witness ==
    /\ Admitted
    /\ CorruptTransform(lookup.transform)
    /\ points # <<>>
    /\ transformed_points # <<>>
    /\ \A i \in 1..Len(appended_in) : appended_in[i] < nbatch

\* The entry that point p of a batch becomes under a transform: its
\* transformed coordinates with its own label (nowhere if transform_point
\* gave None).
Image(p, transform) ==
    LET transformed_point == transform_point(p, transform)
        c == IF transformed_point = <<>> THEN Nowhere ELSE transformed_point[1]
    IN  [x |-> c.x, y |-> c.y, z |-> c.z, label |-> p.label]

Images(pts, transform) == [k \in 1..Len(pts) |-> Image(pts[k], transform)]

FarFromAll(c, tp) == \A i \in 1..Len(tp) : far_apart(c, tp[i], D_GLOBAL)

\* C14 as stated (snapshot check): within one batch each transformed
\* candidate is tested only against the accumulated list as it was before
\* the batch began, so the batch appends, in order, every valid candidate
\* that is at least d_global from all entries of that earlier list.
C14_TestedAgainstSnapshotOnly ==
    [][(ret = "idle" /\ PassedGate(ret'))
          => LET cands == Images(points', lookup'.transform)
                 K == {k \in 1..Len(cands) :
                          /\ is_valid_point(cands[k])
                          /\ FarFromAll(cands[k], transformed_points)}
             IN  transformed_points' = transformed_points \o Restrict(cands, K, 1)]_vars

\* C14 (live check): within one batch each transformed candidate is tested
\* against the live accumulated list, that is the list as it was before the
\* batch began and the candidates of the same batch appended before it; the
\* batch appends, in order, exactly the valid candidates at least d_global
\* from all of these.
LiveKept(cands, tp, K) ==
    \A k \in 1..Len(cands) :
        (k \in K) <=> (/\ is_valid_point(cands[k])
                       /\ FarFromAll(cands[k], tp)
                       /\ \A j \in K : j < k => far_apart(cands[k], cands[j], D_GLOBAL))

C14_TestedAgainstLiveList ==
    [][(ret = "idle" /\ PassedGate(ret'))
          => LET cands == Images(points', lookup'.transform)
             IN  \E K \in SUBSET (1..Len(cands)) :
                    /\ LiveKept(cands, transformed_points, K)
                    /\ transformed_points' = transformed_points \o Restrict(cands, K, 1)]_vars

\* two candidates of one batch, both at least d_global from everything
\* accumulated before, were nearer than d_global to each other: the first
\* was appended, the second was not
C14_Witness ==
    /\ Admitted
    /\ \E k1 \in 1..Len(points) : \E k2 \in 1..Len(points) :
          /\ k1 < k2
          /\ ~ far_apart(Candidate(k1), Candidate(k2), D_GLOBAL)
          /\ \A i \in 1..Len(transformed_points) :
                appended_in[i] < nbatch =>
                    /\ far_apart(Candidate(k1), transformed_points[i], D_GLOBAL)
                    /\ far_apart(Candidate(k2), transformed_points[i], D_GLOBAL)
          /\ \E i \in 1..Len(transformed_points) :
                appended_in[i] = nbatch /\ SameCoords(Candidate(k1), transformed_points[i])
          /\ ~ \E i \in 1..Len(transformed_points) :
                SameCoords(Candidate(k2), transformed_points[i])

\* C15 (provenance): the entries a batch appends are, in the order of its
\* reduced points, some of those points moved by the batch's transform
\* (rotated by the quaternion as q p q*, then shifted by the translation),
\* each with the label of the point it came from; nothing else is appended.
qmul(a, b) ==
    [w |-> a.w * b.w - a.x * b.x - a.y * b.y - a.z * b.z,
     x |-> a.w * b.x + a.x * b.w + a.y * b.z - a.z * b.y,
     y |-> a.w * b.y - a.x * b.z + a.y * b.w + a.z * b.x,
     z |-> a.w * b.z + a.x * b.y - a.y * b.x + a.z * b.w]

Moved(p, t) ==
    LET q == t.rotation
        r == qmul(qmul(q, [w |-> 0, x |-> p.x, y |-> p.y, z |-> p.z]),
                  [w |-> q.w, x |-> 0 - q.x, y |-> 0 - q.y, z |-> 0 - q.z])
    IN  [x |-> fadd(r.x, t.translation.x),
         y |-> fadd(r.y, t.translation.y),
         z |-> fadd(r.z, t.translation.z),
         label |-> p.label]

C15_AppendedFromReducedBatch ==
    [][(ret = "idle" /\ PassedGate(ret'))
          => IF CorruptTransform(lookup'.transform)
             THEN transformed_points' = transformed_points
             ELSE LET moved == [k \in 1..Len(points') |-> Moved(points'[k], lookup'.transform)]
                  IN  /\ \A k \in 1..Len(points') :
                            \E i \in 1..Len(msg'.points) : points'[k] = msg'.points[i]
                      /\ \E K \in SUBSET (1..Len(points')) :
                            transformed_points'
                                = transformed_points \o Restrict(moved, K, 1)]_vars

\* a batch of two points under the half turn with a shift appended both
\* images, in the batch's order and with their labels, behind the entry of
\* an earlier batch
C15_Witness ==
    /\ Admitted
    /\ lookup.transform.rotation = Quat(1, 0, 0, 0)
    /\ lookup.transform.translation = Vec(0, 0, 1)
    /\ points = <<Pt(6, 0, 0 - 8, LABEL_A), Pt(0, 0, 0, LABEL_A)>>
    /\ transformed_points = <<Pt(6, 0, 0 - 8, LABEL_A),
                              Pt(6, 0, 9, LABEL_A), Pt(0, 0, 1, LABEL_A)>>
    /\ appended_in = <<1, 2, 2>>

\* C17 (sparsity of the whole list): with batches processed one at a time,
\* every two distinct accumulated entries are at least d_global apart in
\* every reachable state, also when both were appended by the same batch.
C17_AllEntriesFarApart ==
    \A i \in 1..Len(transformed_points) : \A j \in 1..Len(transformed_points) :
        i < j => dist2(transformed_points[i], transformed_points[j]) >= sq(D_GLOBAL)

\* one batch appended two entries, exactly d_global apart
C17_Witness ==
    \E i \in 1..Len(transformed_points) : \E j \in 1..Len(transformed_points) :
        /\ i < j
        /\ appended_in[i] = appended_in[j]
        /\ dist2(transformed_points[i], transformed_points[j]) = sq(D_GLOBAL)

\* C18 (publish after every admitted batch): a batch that passes the gate
\* ends with exactly one publish when the accumulated list is not empty
\* after the merge, and the published width is the full length of the list,
\* also when the batch appended nothing; a batch dropped at the gate
\* publishes nothing.
C18_PublishAfterAdmittedBatch ==
    /\ (ret # "idle" /\ admission(msg, lookup) = "admitted"
            /\ transformed_points # <<>>)
          => /\ Len(published) = 1
             /\ published[1].width = Len(transformed_points)
    /\ (ret # "idle" /\ admission(msg, lookup) # "admitted") => published = <<>>

\* C19 (no non-finite entry): no accumulated entry has a NaN or infinite
\* coordinate, and a candidate with such a coordinate is reported too close
\* to the list in every reachable state, so it is never appended and the
\* skip of invalid existing entries never runs.
NonFiniteCandidates ==
    {Vec(NaN, 0, 0), Vec(0, Inf, 0), Vec(0, 0, NegInf), Vec(NegInf, NaN, 6)}

C19_NoNonFiniteEntry ==
    /\ \A i \in 1..Len(transformed_points) : \A dim \in Dims :
          transformed_points[i][dim] \notin {NaN, Inf, NegInf}
    /\ \A c \in NonFiniteCandidates : is_point_too_close(c, transformed_points)

\* a batch of an infinite and a NaN point was admitted behind an earlier
\* batch; the list holds only what that earlier batch appended
C19_Witness ==
    /\ Admitted
    /\ Len(msg.points) = 2
    /\ isinf(msg.points[1].x)
    /\ isnan(msg.points[2].y)
    /\ transformed_points # <<>>
    /\ published # <<>>

\* C16 (race of concurrent passes): the merge is a check followed by an
\* append with no lock between them.  When every pass runs as one critical
\* section, any two accumulated entries are at least d_global apart; when two
\* passes interleave between the check and the append, a state with two
\* entries nearer than d_global is reachable (C16_Witness).
TooNear(i, j) ==
    ~ far_apart(transformed_points[i], transformed_points[j], D_GLOBAL)

C16_CriticalSectionKeepsSparsity ==
    passes.mutex => \A i \in 1..Len(transformed_points) :
                        \A j \in 1..Len(transformed_points) : i # j => ~ TooNear(i, j)

\* without mutual exclusion the two threads each appended an entry, and the
\* two entries are nearer than d_global
C16_Witness ==
    /\ ~ passes.mutex
    /\ \E i \in 1..Len(transformed_points) : \E j \in 1..Len(transformed_points) :
          /\ appended_in[i] = 1
          /\ appended_in[j] = 2
          /\ TooNear(i, j)

====
